---- MODULE Spec2Model ----
(***************************************************************************)
(* Model of monitor.py (gs-rest-service monitoring tool).                  *)
(*                                                                         *)
(* Two specifications share the module:                                    *)
(*   SpecMonitor - one ServiceMonitor process running monitor_loop:        *)
(*                 check_service (retry loop over HTTP probes) followed by *)
(*                 handle_status_change (status tracker + notifications).  *)
(*   SpecDeploy  - one run of deploy.py: build, deploy, health check,      *)
(*                 status, with the outcome of every external command.     *)
(*   SpecDaemon  - the PID-file protocol: concurrent `--daemon start`,     *)
(*                 `--daemon stop` and `--daemon status` invocations and   *)
(*                 the forked daemon children, interleaved statement by    *)
(*                 statement on the shared PID file.                       *)
(***************************************************************************)
EXTENDS Integers, Sequences, FiniteSets, TLC

\* ---------------------------------------------------------------- bounds
\* largest --retries value explored (the CLI accepts any int)
MaxRetries == 3
\* number of check cycles (handle_status_change calls) explored
MaxChecks == 4
\* number of command-line invocations of monitor.py explored
NumCmds == 2
\* --interval, in ticks of the clock the waits of monitor_loop are measured by
CheckInterval == 2

\* --retries values: argparse type=int accepts zero and negative numbers
RetriesValues == -1 .. MaxRetries

\* outcome of one requests.get: HTTP 200, another status code, or a
\* requests.exceptions.RequestException
Responses == {"200", "500", "error"}

\* outcome of the requests.post of a notification: a 2xx response, a
\* response raise_for_status rejects, or an exception raised by the request
Deliveries == {"ok", "http_error", "error"}

VARIABLES
    \* ---- ServiceMonitor fields (monitor.py:24-30)
    service_status,
    consecutive_failures,
    consecutive_successes,
    last_notification,
    shutdown_event,
    \* ---- config (monitor.py:366-378)
    retries,
    check_once,
    no_slack,       \* no_slack or no webhook URL: notifications are not posted
    \* ---- control state of monitor_loop / check_service
    mpc,            \* position inside monitor_loop
    attempt,        \* loop variable of check_service
    cycle_probes,   \* responses of the probes issued in the current cycle
    result,         \* return value of check_service
    remaining,      \* ticks left of the wait or sleep in progress
    iterations,     \* number of loop iterations begun
    \* ---- observation of effects
    notifications,  \* status argument of every send_slack_notification call
    posts,          \* outcome of every requests.post to the webhook
    calls,          \* one record per handle_status_change call
    \* ---- PID-file protocol (run_as_daemon / manage_daemon)
    pid_file,       \* content of the PID file, or NoFile
    cmd,            \* per invocation: action, position, locals, output
    child,          \* per invocation: state of the daemon child it forked
    \* ---- deploy.py
    deployer        \* one run of deploy.py: config, position, steps, exit code

tracked == <<service_status, consecutive_failures, consecutive_successes,
             last_notification>>
config == <<retries, check_once, no_slack>>
logs == <<notifications, posts, calls>>
mvars == <<service_status, consecutive_failures, consecutive_successes,
           last_notification, shutdown_event, retries, check_once, no_slack,
           mpc, attempt, cycle_probes, result, remaining, iterations,
           notifications, posts, calls>>
dvars == <<pid_file, cmd, child>>
vars == <<service_status, consecutive_failures, consecutive_successes,
          last_notification, shutdown_event, retries, check_once, no_slack,
          mpc, attempt, cycle_probes, result, remaining, iterations,
          notifications, posts, calls, pid_file, cmd, child, deployer>>

\* =========================================================================
\* Status tracker
\* =========================================================================

\* the tracked fields as one record
MonitorState ==
    [service_status |-> service_status,
     consecutive_failures |-> consecutive_failures,
     consecutive_successes |-> consecutive_successes,
     last_notification |-> last_notification]

\* mutant: level-triggered alerting (notifies on every "down" observation)
handle_status_change_level(m, new_status) ==
    LET old_status == m.service_status IN
    IF new_status = "up"
    THEN [service_status |-> new_status,
          consecutive_failures |-> 0,
          consecutive_successes |-> m.consecutive_successes + 1,
          last_notification |->
              IF old_status = "down" THEN "recovery" ELSE m.last_notification,
          sent |-> IF old_status = "down" THEN <<"UP">> ELSE <<>>]
    ELSE [service_status |-> new_status,
          consecutive_failures |-> m.consecutive_failures + 1,
          consecutive_successes |-> 0,
          last_notification |-> "failure",
          sent |-> <<"DOWN">>]

\* mutant: every "up" observation after the first check is announced
handle_status_change_reannounce(m, new_status) ==
    LET old_status == m.service_status IN
    IF new_status = "up"
    THEN [service_status |-> new_status,
          consecutive_failures |-> 0,
          consecutive_successes |-> m.consecutive_successes + 1,
          last_notification |->
              IF old_status # "unknown" THEN "recovery" ELSE m.last_notification,
          sent |-> IF old_status # "unknown" THEN <<"UP">> ELSE <<>>]
    ELSE [service_status |-> new_status,
          consecutive_failures |-> m.consecutive_failures + 1,
          consecutive_successes |-> 0,
          last_notification |->
              IF old_status # "down" THEN "failure" ELSE m.last_notification,
          sent |-> IF old_status # "down" THEN <<"DOWN">> ELSE <<>>]

\* mutant: the recovery branch forgets to reset consecutive_failures
handle_status_change_noreset(m, new_status) ==
    LET old_status == m.service_status IN
    IF new_status = "up"
    THEN [service_status |-> new_status,
          consecutive_failures |->
              IF old_status = "down" THEN m.consecutive_failures ELSE 0,
          consecutive_successes |-> m.consecutive_successes + 1,
          last_notification |->
              IF old_status = "down" THEN "recovery" ELSE m.last_notification,
          sent |-> IF old_status = "down" THEN <<"UP">> ELSE <<>>]
    ELSE [service_status |-> new_status,
          consecutive_failures |-> m.consecutive_failures + 1,
          consecutive_successes |-> 0,
          last_notification |->
              IF old_status # "down" THEN "failure" ELSE m.last_notification,
          sent |-> IF old_status # "down" THEN <<"DOWN">> ELSE <<>>]

\* mutant: the first "up" observation is announced as a recovery
handle_status_change_firstup(m, new_status) ==
    LET old_status == m.service_status IN
    IF new_status = "up"
    THEN [service_status |-> new_status,
          consecutive_failures |-> 0,
          consecutive_successes |-> m.consecutive_successes + 1,
          last_notification |->
              IF old_status # "up" THEN "recovery" ELSE m.last_notification,
          sent |-> IF old_status # "up" THEN <<"UP">> ELSE <<>>]
    ELSE [service_status |-> new_status,
          consecutive_failures |-> m.consecutive_failures + 1,
          consecutive_successes |-> 0,
          last_notification |->
              IF old_status # "down" THEN "failure" ELSE m.last_notification,
          sent |-> IF old_status # "down" THEN <<"DOWN">> ELSE <<>>]

\* mutant: service_status is assigned only where a notification is sent
handle_status_change_stuck(m, new_status) ==
    LET old_status == m.service_status
        notify == \/ new_status = "up" /\ old_status = "down"
                  \/ new_status = "down" /\ old_status # "down" IN
    [service_status |-> IF notify THEN new_status ELSE old_status,
     consecutive_failures |->
         IF new_status = "up" THEN 0 ELSE m.consecutive_failures + 1,
     consecutive_successes |->
         IF new_status = "up" THEN m.consecutive_successes + 1 ELSE 0,
     last_notification |->
         IF ~notify THEN m.last_notification
         ELSE IF new_status = "up" THEN "recovery" ELSE "failure",
     sent |-> IF ~notify THEN <<>>
              ELSE IF new_status = "up" THEN <<"UP">> ELSE <<"DOWN">>]

\* mutant: the transition to down keeps the count of successes
handle_status_change_keepcount(m, new_status) ==
    LET old_status == m.service_status
        notify == \/ new_status = "up" /\ old_status = "down"
                  \/ new_status = "down" /\ old_status # "down" IN
    [service_status |-> new_status,
     consecutive_failures |->
         IF new_status = "up" THEN 0 ELSE m.consecutive_failures + 1,
     consecutive_successes |->
         IF new_status = "up" THEN m.consecutive_successes + 1
         ELSE IF new_status # old_status THEN m.consecutive_successes
         ELSE 0,
     last_notification |->
         IF ~notify THEN m.last_notification
         ELSE IF new_status = "up" THEN "recovery" ELSE "failure",
     sent |-> IF ~notify THEN <<>>
              ELSE IF new_status = "up" THEN <<"UP">> ELSE <<"DOWN">>]

\* mutant: the failure branch does not record last_notification
handle_status_change_nolabel(m, new_status) ==
    LET old_status == m.service_status
        notify == \/ new_status = "up" /\ old_status = "down"
                  \/ new_status = "down" /\ old_status # "down" IN
    [service_status |-> new_status,
     consecutive_failures |->
         IF new_status = "up" THEN 0 ELSE m.consecutive_failures + 1,
     consecutive_successes |->
         IF new_status = "up" THEN m.consecutive_successes + 1 ELSE 0,
     last_notification |->
         IF notify /\ new_status = "up" THEN "recovery"
                                         ELSE m.last_notification,
     sent |-> IF ~notify THEN <<>>
              ELSE IF new_status = "up" THEN <<"UP">> ELSE <<"DOWN">>]

\* ServiceMonitor.handle_status_change: the new tracked fields and the
\* status arguments of the send_slack_notification calls it makes
handle_status_change(m, new_status) ==
    LET old_status == m.service_status IN
    IF new_status # old_status
    THEN IF new_status = "up"
         THEN [service_status |-> new_status,
               consecutive_failures |-> 0,
               consecutive_successes |-> m.consecutive_successes + 1,
               last_notification |->
                   IF old_status = "down" THEN "recovery"
                                          ELSE m.last_notification,
               sent |-> IF old_status = "down" THEN <<"UP">> ELSE <<>>]
         ELSE [service_status |-> new_status,
               consecutive_failures |-> m.consecutive_failures + 1,
               consecutive_successes |-> 0,
               last_notification |->
                   IF old_status \in {"up", "unknown"} THEN "failure"
                                                      ELSE m.last_notification,
               sent |-> IF old_status \in {"up", "unknown"} THEN <<"DOWN">>
                                                            ELSE <<>>]
    ELSE IF new_status = "up"
         THEN [service_status |-> m.service_status,
               consecutive_failures |-> 0,
               consecutive_successes |-> m.consecutive_successes + 1,
               last_notification |-> m.last_notification,
               sent |-> <<>>]
         ELSE [service_status |-> m.service_status,
               consecutive_failures |-> m.consecutive_failures + 1,
               consecutive_successes |-> 0,
               last_notification |-> m.last_notification,
               sent |-> <<>>]

\* =========================================================================
\* Retry policy
\* =========================================================================

\* mutant: off-by-one loop bound, one probe more than `retries`
check_service_step_extra(a, n, response) ==
    IF response = "200" THEN "return_true"
    ELSE IF a <= n THEN "retry"
    ELSE "return_false"

\* mutant: a success on a retry attempt is not honoured
check_service_step_firstonly(a, n, response) ==
    IF response = "200" /\ a = 1 THEN "return_true"
    ELSE IF a < n THEN "retry"
    ELSE "return_false"

\* one pass through the body of the for loop of check_service, for attempt
\* a of n with the given probe response: return True, go on to the next
\* attempt, or leave the loop and return False
check_service_step(a, n, response) ==
    IF response = "200" THEN "return_true"
    ELSE IF a < n THEN "retry"
    ELSE "return_false"

\* range(1, retries + 1) is empty: check_service returns False at once
check_service_empty(n) == n < 1

\* the status monitor_loop hands to handle_status_change
monitor_outcome(r) == IF r THEN "up" ELSE "down"

\* =========================================================================
\* Notifier
\* =========================================================================

\* mutant: a failed delivery propagates out of send_slack_notification
send_slack_notification_raises(disabled, delivery) ==
    IF disabled
    THEN [posts |-> <<>>, raised |-> FALSE]
    ELSE [posts |-> <<delivery>>, raised |-> delivery # "ok"]

\* ServiceMonitor.send_slack_notification: nothing is posted when Slack is
\* disabled; otherwise one requests.post, whose exception (raised by the
\* request or by raise_for_status) is caught and logged
send_slack_notification(disabled, delivery) ==
    IF disabled
    THEN [posts |-> <<>>, raised |-> FALSE]
    ELSE [posts |-> <<delivery>>, raised |-> FALSE]

\* =========================================================================
\* monitor_loop
\* =========================================================================

\* mutant: the loop condition ignores the shutdown flag
loop_continues_always(flag) == TRUE

\* while not self.shutdown_event.is_set()
loop_continues(flag) == ~flag

\* self.shutdown_event.wait(timeout=check_interval) returns: the flag is set
\* or the timeout has passed
event_wait_returns(flag, rem) == flag \/ rem = 0

\* time.sleep(check_interval) returns: the interval has passed (a signal
\* handler that returns normally does not cut the sleep short)
sleep_returns(flag, rem) == rem = 0

\* if self.config['check_once']: break
check_once_breaks(once) == once

\* the loop condition; when it holds the body starts with check_service
LoopTop ==
    /\ mpc = "loop"
    /\ IF ~loop_continues(shutdown_event)
       THEN /\ mpc' = "stopped"
            /\ UNCHANGED <<attempt, cycle_probes, result, iterations>>
       ELSE /\ iterations < MaxChecks
            /\ iterations' = iterations + 1
            /\ cycle_probes' = <<>>
            /\ attempt' = 1
            /\ IF check_service_empty(retries)
               THEN mpc' = "handle" /\ result' = FALSE
               ELSE mpc' = "probe" /\ UNCHANGED result
    /\ UNCHANGED <<tracked, config, logs, shutdown_event, remaining>>
    /\ UNCHANGED <<dvars, deployer>>

\* one requests.get inside check_service and what the loop does with it
Probe(response) ==
    /\ mpc = "probe"
    /\ cycle_probes' = Append(cycle_probes, response)
    /\ LET step == check_service_step(attempt, retries, response) IN
       CASE step = "return_true" ->
              mpc' = "handle" /\ result' = TRUE /\ UNCHANGED attempt
         [] step = "retry" ->
              mpc' = "probe" /\ attempt' = attempt + 1 /\ UNCHANGED result
         [] OTHER ->
              mpc' = "handle" /\ result' = FALSE /\ UNCHANGED attempt
    /\ UNCHANGED <<tracked, config, logs, shutdown_event, remaining,
                   iterations>>
    /\ UNCHANGED <<dvars, deployer>>

\* mutant: the exception leaves the loop
ProbeRaises_exits ==
    /\ mpc = "probe"
    /\ cycle_probes' = Append(cycle_probes, "exception")
    /\ mpc' = "stopped"
    /\ UNCHANGED <<tracked, config, logs, shutdown_event, attempt, result,
                   remaining, iterations>>
    /\ UNCHANGED <<dvars, deployer>>

\* requests.get raises an exception that is not a RequestException (for
\* instance the ValueError of a timeout of 0): it leaves check_service and
\* reaches `except Exception` of monitor_loop, which logs it and starts
\* time.sleep(check_interval)
ProbeRaises ==
    /\ mpc = "probe"
    /\ cycle_probes' = Append(cycle_probes, "exception")
    /\ mpc' = "sleep"
    /\ remaining' = CheckInterval
    /\ UNCHANGED <<tracked, config, logs, shutdown_event, attempt, result,
                   iterations>>
    /\ UNCHANGED <<dvars, deployer>>

\* handle_status_change(up/down) with the delivery of the notification it
\* sends, the status log line and the check_once break; an exception out of
\* the notification would leave handle_status_change before it assigns a
\* field and reach `except Exception`
Handle(delivery) ==
    /\ mpc = "handle"
    /\ LET new_status == monitor_outcome(result)
           h == handle_status_change(MonitorState, new_status)
           n == IF h.sent = <<>>
                THEN [posts |-> <<>>, raised |-> FALSE]
                ELSE send_slack_notification(no_slack, delivery) IN
       /\ notifications' = notifications \o h.sent
       /\ posts' = posts \o n.posts
       /\ IF n.raised
          THEN /\ UNCHANGED <<tracked, calls>>
               /\ mpc' = "sleep"
               /\ remaining' = CheckInterval
          ELSE /\ service_status' = h.service_status
               /\ consecutive_failures' = h.consecutive_failures
               /\ consecutive_successes' = h.consecutive_successes
               /\ last_notification' = h.last_notification
               /\ calls' = Append(calls, [new_status |-> new_status,
                                           old_status |-> service_status,
                                           sent |-> h.sent])
               /\ IF check_once_breaks(check_once)
                  THEN mpc' = "stopped" /\ UNCHANGED remaining
                  ELSE mpc' = "wait" /\ remaining' = CheckInterval
    /\ UNCHANGED <<config, shutdown_event, attempt, cycle_probes, result,
                   iterations>>
    /\ UNCHANGED <<dvars, deployer>>

\* self.shutdown_event.wait(timeout=check_interval) returns
Wait ==
    /\ mpc = "wait"
    /\ event_wait_returns(shutdown_event, remaining)
    /\ mpc' = "loop"
    /\ UNCHANGED <<tracked, config, logs, shutdown_event, attempt,
                   cycle_probes, result, remaining, iterations>>
    /\ UNCHANGED <<dvars, deployer>>

\* time.sleep(check_interval) of the exception handler returns
Sleep ==
    /\ mpc = "sleep"
    /\ sleep_returns(shutdown_event, remaining)
    /\ mpc' = "loop"
    /\ UNCHANGED <<tracked, config, logs, shutdown_event, attempt,
                   cycle_probes, result, remaining, iterations>>
    /\ UNCHANGED <<dvars, deployer>>

\* one tick passes while the loop is blocked in a wait or sleep that does
\* not return yet
Tick ==
    /\ \/ mpc = "wait" /\ ~event_wait_returns(shutdown_event, remaining)
       \/ mpc = "sleep" /\ ~sleep_returns(shutdown_event, remaining)
    /\ remaining' = remaining - 1
    /\ UNCHANGED <<tracked, config, logs, shutdown_event, mpc, attempt,
                   cycle_probes, result, iterations>>
    /\ UNCHANGED <<dvars, deployer>>

\* SIGTERM / SIGINT delivered to the monitor process: signal_handler
Signal ==
    /\ mpc # "stopped"
    /\ ~shutdown_event
    /\ shutdown_event' = TRUE
    /\ UNCHANGED <<tracked, config, logs, mpc, attempt, cycle_probes, result,
                   remaining, iterations>>
    /\ UNCHANGED <<dvars, deployer>>

\* =========================================================================
\* PID-file protocol: run_as_daemon, manage_daemon and the daemon children
\* =========================================================================

\* command-line invocations of monitor.py; the daemon child forked by
\* invocation c has process id c, and process id 0 is a process of an
\* earlier run that no longer exists
Cmds == 1 .. NumCmds
Pids == 0 .. NumCmds

\* the PID file: absent, or present with its text (<<>> is text that int()
\* rejects, <<p>> is str(p))
NoFile == [exists |-> FALSE, content |-> <<>>]
FileWith(text) == [exists |-> TRUE, content |-> text]

\* int(f.read().strip()) raises ValueError
int_fails(text) == Len(text) = 0
\* int(f.read().strip())
int_of(text) == text[1]
\* str(pid)
str_of(p) == <<p>>

\* the process p exists and belongs to the caller: os.kill(p, sig) does not
\* raise OSError
alive(p) == p \in Cmds /\ child[p].state \in {"loop", "cleanup"}

NoCmd == [action |-> "none", pc |-> "idle", pid |-> -1, out |-> <<>>,
          exit |-> -1, forked |-> FALSE, found |-> <<>>, detached |-> FALSE,
          url |-> FALSE, monitor |-> FALSE]
NoChild == [state |-> "none", shutdown |-> FALSE]

\* the invocation c moves to position pc
Goto(c, pc) == [cmd EXCEPT ![c].pc = pc]
\* the invocation c prints (or logs) msg and ends with the given exit code
Finish(c, msg, code) ==
    [cmd EXCEPT ![c].pc = "done", ![c].out = Append(@, msg), ![c].exit = code]

\* os.remove(pid_file) unlinks the name: an invocation that holds the file
\* open for writing keeps writing to the unlinked file
Unlinked(cm) ==
    [c \in Cmds |->
        IF cm[c].pc = "write" /\ pid_file.exists
        THEN [cm[c] EXCEPT !.detached = TRUE] ELSE cm[c]]

\* the values of --daemon; "run" stands for an invocation without --daemon
DaemonActions == {"start", "stop", "status", "restart", "run"}

\* a user runs `monitor.py --daemon a`, with or without --url: main sends
\* stop and status to manage_daemon, restart to manage_daemon('stop') first,
\* and everything else to the validation of the arguments
Launch(c, a, u) ==
    /\ cmd[c].action = "none"
    /\ cmd' = [cmd EXCEPT ![c].action = a, ![c].url = u,
                          ![c].pc = IF a \in {"stop", "status", "restart"}
                                    THEN "exists" ELSE "validate"]
    /\ UNCHANGED <<pid_file, child>>
    /\ UNCHANGED <<mvars, deployer>>

\* mutant: the --url check is skipped
main_url_missing_never(u) == FALSE

\* if not args.url
main_url_missing(u) == ~u

\* main after the daemon management: without --url print the error and
\* sys.exit(1); otherwise build the configuration, construct the
\* ServiceMonitor and call start(), which runs run_as_daemon for
\* `--daemon start` and monitor_loop in the foreground for everything else
Validate(c) ==
    /\ cmd[c].pc = "validate"
    /\ cmd' = IF main_url_missing(cmd[c].url)
              THEN Finish(c, "url_required", 1)
              ELSE [cmd EXCEPT ![c].monitor = TRUE,
                               ![c].pc = IF cmd[c].action = "start"
                                         THEN "exists" ELSE "monitor_loop"]
    /\ UNCHANGED <<pid_file, child>>
    /\ UNCHANGED <<mvars, deployer>>

\* the foreground monitor_loop ends (check_once) and main returns
ForegroundLoopEnds(c) ==
    /\ cmd[c].pc = "monitor_loop"
    /\ check_once
    /\ cmd' = Finish(c, "monitoring_stopped", 0)
    /\ UNCHANGED <<pid_file, child>>
    /\ UNCHANGED <<mvars, deployer>>

\* manage_daemon('stop') returns to main, which returns for `stop` and goes
\* on to the validation of the arguments for `restart`
StopReturns(c, msg) ==
    IF cmd[c].action = "restart"
    THEN [cmd EXCEPT ![c].pc = "validate", ![c].out = Append(@, msg)]
    ELSE Finish(c, msg, 0)

\* ------------------------------------------------------------ run_as_daemon

\* mutant: a live owner is taken for a stale one
run_as_daemon_probe_nolive(is_alive) == "remove"

\* mutant: the stale PID file is left in place
run_as_daemon_probe_keep(is_alive) ==
    IF is_alive THEN "already_running" ELSE "fork"

\* os.kill(old_pid, 0) in run_as_daemon: exit "already running" when the
\* process exists, remove the stale file otherwise
run_as_daemon_probe(is_alive) ==
    IF is_alive THEN "already_running" ELSE "remove"

\* if os.path.exists(pid_file)
StartExists(c) ==
    /\ cmd[c].action = "start" /\ cmd[c].pc = "exists"
    /\ cmd' = Goto(c, IF pid_file.exists THEN "read" ELSE "fork")
    /\ UNCHANGED <<pid_file, child>>
    /\ UNCHANGED <<mvars, deployer>>

\* open(pid_file, 'r'); old_pid = int(f.read().strip()), with the
\* except (ValueError, FileNotFoundError): pass
StartRead(c) ==
    /\ cmd[c].action = "start" /\ cmd[c].pc = "read"
    /\ cmd' = IF ~pid_file.exists
              THEN Goto(c, "fork")
              ELSE IF int_fails(pid_file.content)
              THEN [cmd EXCEPT ![c].pc = "fork",
                               ![c].found = Append(@, "corrupt")]
              ELSE [cmd EXCEPT ![c].pc = "kill0",
                               ![c].pid = int_of(pid_file.content)]
    /\ UNCHANGED <<pid_file, child>>
    /\ UNCHANGED <<mvars, deployer>>

\* os.kill(old_pid, 0): "already running" and sys.exit(1), or stale
StartProbe(c) ==
    /\ cmd[c].action = "start" /\ cmd[c].pc = "kill0"
    /\ cmd' = IF run_as_daemon_probe(alive(cmd[c].pid)) = "already_running"
              THEN Finish(c, "already_running", 1)
              ELSE [cmd EXCEPT ![c].pc = run_as_daemon_probe(alive(cmd[c].pid)),
                               ![c].found = Append(@, "stale")]
    /\ UNCHANGED <<pid_file, child>>
    /\ UNCHANGED <<mvars, deployer>>

\* os.remove(pid_file) of the stale file; FileNotFoundError is passed over
StartRemove(c) ==
    /\ cmd[c].action = "start" /\ cmd[c].pc = "remove"
    /\ pid_file' = NoFile
    /\ cmd' = Unlinked(Goto(c, "fork"))
    /\ UNCHANGED child
    /\ UNCHANGED <<mvars, deployer>>

\* os.fork() succeeds: the child exists and enters monitor_loop
StartFork(c) ==
    /\ cmd[c].action = "start" /\ cmd[c].pc = "fork"
    /\ child' = [child EXCEPT ![c] = [state |-> "loop", shutdown |-> FALSE]]
    /\ cmd' = [cmd EXCEPT ![c].pc = "open", ![c].forked = TRUE]
    /\ UNCHANGED pid_file
    /\ UNCHANGED <<mvars, deployer>>

\* os.fork() raises OSError: "Failed to fork daemon", sys.exit(1)
StartForkFails(c) ==
    /\ cmd[c].action = "start" /\ cmd[c].pc = "fork"
    /\ cmd' = Finish(c, "fork_failed", 1)
    /\ UNCHANGED <<pid_file, child>>
    /\ UNCHANGED <<mvars, deployer>>

\* parent: open(pid_file, 'w') creates or truncates the file
StartOpen(c) ==
    /\ cmd[c].action = "start" /\ cmd[c].pc = "open"
    /\ pid_file' = FileWith(<<>>)
    /\ cmd' = [cmd EXCEPT ![c].pc = "write", ![c].detached = FALSE]
    /\ UNCHANGED child
    /\ UNCHANGED <<mvars, deployer>>

\* parent: f.write(str(pid)) reaches the file as the with block closes it,
\* then "Monitor daemon started" and sys.exit(0).  The descriptor writes to
\* the file that was opened, also when its name was unlinked meanwhile.
StartWrite(c) ==
    /\ cmd[c].action = "start" /\ cmd[c].pc = "write"
    /\ pid_file' = IF cmd[c].detached THEN pid_file ELSE FileWith(str_of(c))
    /\ cmd' = Finish(c, "daemon_started", 0)
    /\ UNCHANGED child
    /\ UNCHANGED <<mvars, deployer>>

\* ------------------------------------------------------------ daemon child

\* the child's monitor_loop ends: the shutdown flag is set, or check_once
ChildLoopEnds(c) ==
    /\ child[c].state = "loop"
    /\ child[c].shutdown \/ check_once
    /\ child' = [child EXCEPT ![c].state = "cleanup"]
    /\ UNCHANGED <<pid_file, cmd>>
    /\ UNCHANGED <<mvars, deployer>>

\* finally: os.remove(pid_file), FileNotFoundError passed over; the child
\* process then ends
ChildCleanup(c) ==
    /\ child[c].state = "cleanup"
    /\ pid_file' = NoFile
    /\ child' = [child EXCEPT ![c].state = "exited"]
    /\ cmd' = Unlinked(cmd)
    /\ UNCHANGED <<mvars, deployer>>

\* ------------------------------------------------------ manage_daemon stop

\* after the grace period: os.kill(pid, 0) succeeds, so SIGKILL follows
stop_escalates(is_alive) == is_alive

\* if os.path.exists(pid_file) ... else print("PID file not found")
StopExists(c) ==
    /\ cmd[c].action \in {"stop", "restart"} /\ cmd[c].pc = "exists"
    /\ cmd' = IF pid_file.exists
              THEN [cmd EXCEPT ![c].pc = "read",
                               ![c].found = Append(@, "pid_file")]
              ELSE StopReturns(c, "pid_file_not_found")
    /\ UNCHANGED <<pid_file, child>>
    /\ UNCHANGED <<mvars, deployer>>

\* pid = int(f.read().strip()); FileNotFoundError and ValueError end the
\* command with "Error stopping daemon"
StopRead(c) ==
    /\ cmd[c].action \in {"stop", "restart"} /\ cmd[c].pc = "read"
    /\ cmd' = IF ~pid_file.exists
              THEN [StopReturns(c, "error_stopping")
                       EXCEPT ![c].found = Append(@, "vanished")]
              ELSE IF int_fails(pid_file.content)
              THEN StopReturns(c, "error_stopping")
              ELSE [cmd EXCEPT ![c].pc = "term",
                               ![c].pid = int_of(pid_file.content)]
    /\ UNCHANGED <<pid_file, child>>
    /\ UNCHANGED <<mvars, deployer>>

\* os.kill(pid, signal.SIGTERM): the daemon's signal_handler sets its
\* shutdown flag; OSError (no such process) ends the command with
\* "Error stopping daemon"; then time.sleep(2)
StopTerm(c) ==
    /\ cmd[c].action \in {"stop", "restart"} /\ cmd[c].pc = "term"
    /\ IF alive(cmd[c].pid)
       THEN /\ child' = [child EXCEPT ![cmd[c].pid].shutdown = TRUE]
            /\ cmd' = [cmd EXCEPT ![c].pc = "kill0",
                                  ![c].found = Append(@, "sigterm")]
       ELSE /\ cmd' = StopReturns(c, "error_stopping")
            /\ UNCHANGED child
    /\ UNCHANGED pid_file
    /\ UNCHANGED <<mvars, deployer>>

\* os.kill(pid, 0) after the grace period
StopProbe(c) ==
    /\ cmd[c].action \in {"stop", "restart"} /\ cmd[c].pc = "kill0"
    /\ cmd' = IF stop_escalates(alive(cmd[c].pid))
              THEN [cmd EXCEPT ![c].pc = "kill9",
                               ![c].out = Append(@, "force_killing")]
              ELSE Goto(c, "remove")
    /\ UNCHANGED <<pid_file, child>>
    /\ UNCHANGED <<mvars, deployer>>

\* os.kill(pid, signal.SIGKILL); an OSError is passed over
StopKill(c) ==
    /\ cmd[c].action \in {"stop", "restart"} /\ cmd[c].pc = "kill9"
    /\ child' = IF alive(cmd[c].pid)
                THEN [child EXCEPT ![cmd[c].pid].state = "killed"]
                ELSE child
    /\ cmd' = [cmd EXCEPT ![c].pc = "remove",
                          ![c].found = Append(@, "sigkill")]
    /\ UNCHANGED pid_file
    /\ UNCHANGED <<mvars, deployer>>

\* os.remove(pid_file) and "Monitor daemon stopped"; FileNotFoundError ends
\* the command with "Error stopping daemon"
StopRemove(c) ==
    /\ cmd[c].action \in {"stop", "restart"} /\ cmd[c].pc = "remove"
    /\ pid_file' = NoFile
    /\ cmd' = IF pid_file.exists
              THEN Unlinked(StopReturns(c, "daemon_stopped"))
              ELSE [StopReturns(c, "error_stopping")
                       EXCEPT ![c].found = Append(@, "vanished")]
    /\ UNCHANGED child
    /\ UNCHANGED <<mvars, deployer>>

\* ---------------------------------------------------- manage_daemon status

\* if os.path.exists(pid_file) ... else print("Monitor daemon is not running")
StatusExists(c) ==
    /\ cmd[c].action = "status" /\ cmd[c].pc = "exists"
    /\ cmd' = IF pid_file.exists THEN Goto(c, "read")
              ELSE Finish(c, "not_running", 0)
    /\ UNCHANGED <<pid_file, child>>
    /\ UNCHANGED <<mvars, deployer>>

\* pid = int(f.read().strip()); FileNotFoundError and ValueError print
\* "Invalid PID file"
StatusRead(c) ==
    /\ cmd[c].action = "status" /\ cmd[c].pc = "read"
    /\ cmd' = IF ~pid_file.exists
              THEN [Finish(c, "invalid_pid_file", 0)
                       EXCEPT ![c].found = Append(@, "vanished")]
              ELSE IF int_fails(pid_file.content)
              THEN Finish(c, "invalid_pid_file", 0)
              ELSE [cmd EXCEPT ![c].pc = "kill0",
                               ![c].pid = int_of(pid_file.content)]
    /\ UNCHANGED <<pid_file, child>>
    /\ UNCHANGED <<mvars, deployer>>

\* os.kill(pid, 0): "Monitor daemon is running", or "Monitor daemon is not
\* running (stale PID file)"
StatusProbe(c) ==
    /\ cmd[c].action = "status" /\ cmd[c].pc = "kill0"
    /\ cmd' = IF alive(cmd[c].pid)
              THEN Finish(c, "daemon_running", 0)
              ELSE [cmd EXCEPT ![c].pc = "remove",
                               ![c].out = Append(@, "not_running_stale"),
                               ![c].found = Append(@, "stale")]
    /\ UNCHANGED <<pid_file, child>>
    /\ UNCHANGED <<mvars, deployer>>

\* os.remove(pid_file) in the OSError handler; a FileNotFoundError there is
\* caught by the outer handler, which prints "Invalid PID file"
StatusRemove(c) ==
    /\ cmd[c].action = "status" /\ cmd[c].pc = "remove"
    /\ pid_file' = NoFile
    /\ cmd' = IF pid_file.exists
              THEN Unlinked([cmd EXCEPT ![c].pc = "done", ![c].exit = 0])
              ELSE [Finish(c, "invalid_pid_file", 0)
                       EXCEPT ![c].found = Append(@, "vanished")]
    /\ UNCHANGED child
    /\ UNCHANGED <<mvars, deployer>>

\* =========================================================================
\* deploy.py
\* =========================================================================

\* max_attempts of DockerDeployer.health_check
max_attempts == 5

\* the flags --build, --local, --dry-run and --no-health-check
DeployConfigs ==
    [build_image : BOOLEAN, local_deploy : BOOLEAN, dry_run : BOOLEAN,
     skip_health_check : BOOLEAN]

\* deploy.py before main has run
NoDeploy ==
    [config |-> [build_image |-> FALSE, local_deploy |-> FALSE,
                 dry_run |-> FALSE, skip_health_check |-> FALSE],
     pc |-> "connect", steps |-> <<>>, failed |-> <<>>, attempts |-> <<>>,
     success |-> FALSE, exit |-> -1]

\* DockerDeployer.execute_command: a dry run only logs the command and
\* returns True; otherwise the exit status of the command decides
execute_command(dry_run, ok) == dry_run \/ ok

\* mutant: the result of a step is not looked at
main_gate_ignores(ok) == TRUE

\* if not deployer.<step>(): sys.exit(1)
main_gate(ok) == ok

\* mutant: one health check attempt more than max_attempts
health_check_step_extra(a, ok) ==
    IF ok THEN "return_true"
    ELSE IF a <= max_attempts THEN "retry"
    ELSE "return_false"

\* one pass through the loop of health_check for attempt a: return True on
\* success, sleep and retry, or leave the loop and return False
health_check_step(a, ok) ==
    IF ok THEN "return_true"
    ELSE IF a < max_attempts THEN "retry"
    ELSE "return_false"

\* main after a step that returned r: go on to the next position, or
\* sys.exit(1)
AfterStep(step, r, next) ==
    LET ran == [deployer EXCEPT !.steps = Append(@, step),
                                !.failed = IF r THEN @ ELSE Append(@, step)] IN
    IF main_gate(r)
    THEN [ran EXCEPT !.pc = next]
    ELSE [ran EXCEPT !.pc = "exit", !.exit = 1]

\* DockerDeployer.__enter__: the SSH connection of a remote, non-dry run;
\* a failed connection raises, and main's handler exits with 1
Connect(ok) ==
    /\ deployer.pc = "connect"
    /\ deployer' =
          IF ~deployer.config.local_deploy /\ ~deployer.config.dry_run /\ ~ok
          THEN [deployer EXCEPT !.failed = Append(@, "connect"),
                                !.pc = "exit", !.exit = 1]
          ELSE [deployer EXCEPT !.pc = IF deployer.config.build_image
                                       THEN "build" ELSE "deploy"]
    /\ UNCHANGED <<mvars, dvars>>

\* build_image: False when the Dockerfile is missing (also in a dry run) or
\* docker build fails or times out
BuildImage(dockerfile, ok) ==
    /\ deployer.pc = "build"
    /\ deployer' = AfterStep("build_image",
                             dockerfile /\ (deployer.config.dry_run \/ ok),
                             "deploy")
    /\ UNCHANGED <<mvars, dvars>>

\* deploy_application: docker stop and rm (results ignored), docker pull
\* when the image is neither built nor local, docker run, then the wait
DeployApplication(pull_ok, run_ok) ==
    /\ deployer.pc = "deploy"
    /\ LET dry == deployer.config.dry_run
           pulls == ~deployer.config.build_image /\ ~deployer.config.local_deploy
           r == /\ pulls => execute_command(dry, pull_ok)
                /\ execute_command(dry, run_ok) IN
       deployer' = AfterStep("deploy_application", r, "health_check")
    /\ UNCHANGED <<mvars, dvars>>

\* health_check returns True at once: --no-health-check or a dry run
HealthCheckSkipped ==
    /\ deployer.pc = "health_check"
    /\ deployer.config.skip_health_check \/ deployer.config.dry_run
    /\ deployer' = AfterStep("health_check", TRUE, "get_status")
    /\ UNCHANGED <<mvars, dvars>>

\* one attempt of health_check: the GET (local) or the curl (remote)
\* succeeds or not
HealthAttempt(ok) ==
    /\ deployer.pc = "health_check"
    /\ ~deployer.config.skip_health_check /\ ~deployer.config.dry_run
    /\ LET a == Len(deployer.attempts) + 1
           step == health_check_step(a, ok)
           tried == [deployer EXCEPT !.attempts = Append(@, ok)] IN
       deployer' =
          CASE step = "retry" -> tried
            [] step = "return_true" ->
                 [AfterStep("health_check", TRUE, "get_status")
                     EXCEPT !.attempts = Append(@, ok)]
            [] OTHER ->
                 [AfterStep("health_check", FALSE, "get_status")
                     EXCEPT !.attempts = Append(@, ok)]
    /\ UNCHANGED <<mvars, dvars>>

\* get_status (it returns nothing and catches its errors), then
\* "Deployment completed successfully!" and the normal end of main
GetStatus ==
    /\ deployer.pc = "get_status"
    /\ deployer' = [deployer EXCEPT !.steps = Append(@, "get_status"),
                                    !.success = TRUE,
                                    !.pc = "exit", !.exit = 0]
    /\ UNCHANGED <<mvars, dvars>>

\* KeyboardInterrupt or another exception inside the with block: main's
\* handlers report it and sys.exit(1)
DeployInterrupted ==
    /\ deployer.pc \in {"build", "deploy", "health_check", "get_status"}
    /\ deployer' = [deployer EXCEPT !.failed = Append(@, "interrupted"),
                                    !.pc = "exit", !.exit = 1]
    /\ UNCHANGED <<mvars, dvars>>

\* =========================================================================
\* Specifications
\* =========================================================================

\* ServiceMonitor.__init__ with the configuration of main
InitMonitor ==
    /\ service_status = "unknown"
    /\ consecutive_failures = 0
    /\ consecutive_successes = 0
    /\ last_notification = ""
    /\ shutdown_event = FALSE
    /\ retries \in RetriesValues
    /\ check_once \in BOOLEAN
    /\ no_slack \in BOOLEAN
    /\ mpc = "loop"
    /\ attempt = 1
    /\ cycle_probes = <<>>
    /\ result = FALSE
    /\ remaining = 0
    /\ iterations = 0
    /\ notifications = <<>>
    /\ posts = <<>>
    /\ calls = <<>>
    /\ pid_file = NoFile
    /\ cmd = [c \in Cmds |-> NoCmd]
    /\ child = [c \in Cmds |-> NoChild]
    /\ deployer = NoDeploy

\* the steps of the monitor process itself, and the passing of time
MonitorStep ==
    \/ LoopTop
    \/ \E response \in Responses : Probe(response)
    \/ ProbeRaises
    \/ \E delivery \in Deliveries : Handle(delivery)
    \/ Wait
    \/ Sleep
    \/ Tick

NextMonitor ==
    \/ MonitorStep
    \/ Signal

SpecMonitor == InitMonitor /\ [][NextMonitor]_vars

\* the monitor process keeps running: every probe, wait and sleep ends
SpecMonitorFair == SpecMonitor /\ WF_vars(MonitorStep)

\* no invocation has run yet; the PID file is absent, or left behind by an
\* earlier run (naming a process that no longer exists, or unreadable)
InitDaemon ==
    /\ service_status = "unknown"
    /\ consecutive_failures = 0
    /\ consecutive_successes = 0
    /\ last_notification = ""
    /\ shutdown_event = FALSE
    /\ retries = MaxRetries
    /\ check_once \in BOOLEAN
    /\ no_slack = TRUE
    /\ mpc = "loop"
    /\ attempt = 1
    /\ cycle_probes = <<>>
    /\ result = FALSE
    /\ remaining = 0
    /\ iterations = 0
    /\ notifications = <<>>
    /\ posts = <<>>
    /\ calls = <<>>
    /\ pid_file \in {NoFile, FileWith(str_of(0)), FileWith(<<>>)}
    /\ cmd = [c \in Cmds |-> NoCmd]
    /\ child = [c \in Cmds |-> NoChild]
    /\ deployer = NoDeploy

NextDaemon ==
    \E c \in Cmds :
        \/ \E a \in DaemonActions, u \in BOOLEAN : Launch(c, a, u)
        \/ Validate(c)
        \/ ForegroundLoopEnds(c)
        \/ StartExists(c)
        \/ StartRead(c)
        \/ StartProbe(c)
        \/ StartRemove(c)
        \/ StartFork(c)
        \/ StartForkFails(c)
        \/ StartOpen(c)
        \/ StartWrite(c)
        \/ ChildLoopEnds(c)
        \/ ChildCleanup(c)
        \/ StopExists(c)
        \/ StopRead(c)
        \/ StopTerm(c)
        \/ StopProbe(c)
        \/ StopKill(c)
        \/ StopRemove(c)
        \/ StatusExists(c)
        \/ StatusRead(c)
        \/ StatusProbe(c)
        \/ StatusRemove(c)

SpecDaemon == InitDaemon /\ [][NextDaemon]_vars

\* deploy.py starts with any combination of its flags
InitDeploy ==
    /\ service_status = "unknown"
    /\ consecutive_failures = 0
    /\ consecutive_successes = 0
    /\ last_notification = ""
    /\ shutdown_event = FALSE
    /\ retries = MaxRetries
    /\ check_once = FALSE
    /\ no_slack = TRUE
    /\ mpc = "loop"
    /\ attempt = 1
    /\ cycle_probes = <<>>
    /\ result = FALSE
    /\ remaining = 0
    /\ iterations = 0
    /\ notifications = <<>>
    /\ posts = <<>>
    /\ calls = <<>>
    /\ pid_file = NoFile
    /\ cmd = [c \in Cmds |-> NoCmd]
    /\ child = [c \in Cmds |-> NoChild]
    /\ \E cfg \in DeployConfigs : deployer = [NoDeploy EXCEPT !.config = cfg]

NextDeploy ==
    \/ \E ok \in BOOLEAN : Connect(ok)
    \/ \E dockerfile, ok \in BOOLEAN : BuildImage(dockerfile, ok)
    \/ \E pull_ok, run_ok \in BOOLEAN : DeployApplication(pull_ok, run_ok)
    \/ HealthCheckSkipped
    \/ \E ok \in BOOLEAN : HealthAttempt(ok)
    \/ GetStatus
    \/ DeployInterrupted

SpecDeploy == InitDeploy /\ [][NextDeploy]_vars

TypeOK ==
    /\ service_status \in {"unknown", "up", "down"}
    /\ pid_file.exists \in BOOLEAN

\* =========================================================================
\* Properties of the status tracker and the retry policy (SpecMonitor)
\* =========================================================================

NCalls == Len(calls)
\* the step is a handle_status_change call
HandleStep == Len(calls') = Len(calls) + 1
\* the check cycle in progress saw a failed probe and then a 200
TransientAbsorbed ==
    \E i, j \in 1 .. Len(cycle_probes) :
        /\ i < j /\ j <= retries
        /\ cycle_probes[i] # "200" /\ cycle_probes[j] = "200"

\* C1 as stated: a notification is emitted on a check if and only if the
\* outcome of the check differs from the status tracked just before it.
C1_NotifyIffDiffers ==
    \A i \in 1 .. NCalls :
        (Len(calls[i].sent) > 0) <=> (calls[i].new_status # calls[i].old_status)

\* C1 amended: a notification is emitted on a check if and only if the
\* outcome differs from the status tracked just before it and the check is
\* not a first "up" out of "unknown"; the notification is DOWN for a down
\* outcome and UP for an up outcome; [fail, fail, fail] from unknown emits
\* exactly one DOWN notification, on the first fail.
C1_EdgeTriggered ==
    /\ \A i \in 1 .. NCalls :
          /\ (Len(calls[i].sent) > 0) <=>
                 /\ calls[i].new_status # calls[i].old_status
                 /\ ~(calls[i].old_status = "unknown" /\ calls[i].new_status = "up")
          /\ Len(calls[i].sent) > 0 =>
                 calls[i].sent =
                     IF calls[i].new_status = "down" THEN <<"DOWN">> ELSE <<"UP">>
    /\ (NCalls = 3 /\ \A i \in 1 .. 3 : calls[i].new_status = "down") =>
          /\ notifications = <<"DOWN">>
          /\ calls[1].sent = <<"DOWN">>

\* three failed checks from unknown, one notification
C1_Witness ==
    /\ NCalls = 3
    /\ \A i \in 1 .. 3 : calls[i].new_status = "down"
    /\ calls[1].old_status = "unknown"
    /\ notifications = <<"DOWN">>

\* C2: a handle_status_change call whose outcome equals the current
\* service_status emits no notification and leaves service_status and
\* last_notification unchanged (so any number N of repetitions does).
C2_SteadyStateIdempotent ==
    [][(mpc = "handle" /\ HandleStep /\ monitor_outcome(result) = service_status)
          => /\ notifications' = notifications
             /\ service_status' = service_status
             /\ last_notification' = last_notification]_vars

\* a transition followed by two repetitions of the same outcome
C2_Witness ==
    /\ NCalls >= 3
    /\ calls[NCalls - 2].new_status # calls[NCalls - 2].old_status
    /\ calls[NCalls - 1].new_status = calls[NCalls - 1].old_status
    /\ calls[NCalls].new_status = calls[NCalls].old_status
    /\ calls[NCalls].new_status = "up"

\* C3: from service_status = "up", k successes (k >= 0), one failure and one
\* success emit exactly DOWN then UP, and end with service_status = "up",
\* consecutive_failures = 0 and consecutive_successes = 1.
C3_RecoveryRoundTrip ==
    \A a, b \in 1 .. NCalls :
        ( /\ a <= b /\ b + 1 <= NCalls
          /\ calls[a].old_status = "up"
          /\ \A i \in a .. b - 1 : calls[i].new_status = "up"
          /\ calls[b].new_status = "down"
          /\ calls[b + 1].new_status = "up" )
        => /\ \A i \in a .. b - 1 : calls[i].sent = <<>>
           /\ calls[b].sent = <<"DOWN">>
           /\ calls[b + 1].sent = <<"UP">>
           /\ b + 1 = NCalls =>
                  /\ service_status = "up"
                  /\ consecutive_failures = 0
                  /\ consecutive_successes = 1
                  /\ last_notification = "recovery"

\* up, one more success, a failure, a success
C3_Witness ==
    /\ NCalls = 4
    /\ calls[2].old_status = "up" /\ calls[2].new_status = "up"
    /\ calls[3].new_status = "down"
    /\ calls[4].new_status = "up"
    /\ notifications = <<"DOWN", "UP">>

\* C4: for retries = n >= 1 a check cycle issues at most n probes, issues
\* none after a probe answered 200, returns True at the first 200 and
\* returns False exactly when all n probes failed.
C4_RetryBound ==
    retries >= 1 =>
        /\ Len(cycle_probes) <= retries
        /\ \A i \in 1 .. Len(cycle_probes) - 1 : cycle_probes[i] # "200"
        /\ mpc = "probe" => /\ Len(cycle_probes) = attempt - 1
                            /\ \A i \in 1 .. Len(cycle_probes) :
                                   cycle_probes[i] # "200"
        /\ mpc = "handle" =>
              /\ Len(cycle_probes) >= 1
              /\ result <=> cycle_probes[Len(cycle_probes)] = "200"
              /\ ~result <=> /\ Len(cycle_probes) = retries
                             /\ \A i \in 1 .. retries : cycle_probes[i] # "200"

\* retries = 3, two failed attempts, success on the third
C4_Witness ==
    /\ retries = 3
    /\ mpc = "handle"
    /\ cycle_probes = <<"500", "error", "200">>
    /\ result = TRUE

\* C5: a check cycle in which a probe failed and a later probe within the
\* first `retries` attempts answered 200 calls handle_status_change("up"):
\* service_status is "up" afterwards, consecutive_failures is not
\* incremented and no DOWN notification is emitted.
C5_TransientFailureAbsorbed ==
    [][(mpc = "handle" /\ HandleStep /\ TransientAbsorbed)
          => /\ calls'[Len(calls')].new_status = "up"
             /\ service_status' = "up"
             /\ consecutive_failures' = 0
             /\ consecutive_failures' <= consecutive_failures
             /\ \A i \in 1 .. Len(calls'[Len(calls')].sent) :
                    calls'[Len(calls')].sent[i] # "DOWN"]_vars

\* the service was up, one probe failed, the retry answered 200
C5_Witness ==
    /\ NCalls >= 2
    /\ mpc = "wait"
    /\ cycle_probes = <<"500", "200">>
    /\ calls[NCalls].old_status = "up"
    /\ calls[NCalls].new_status = "up"
    /\ service_status = "up"
    /\ consecutive_failures = 0

\* C6: the first check, made from "unknown", emits one DOWN notification
\* when its outcome is down and none when it is up; a monitor that has seen
\* only successes has emitted no notification.
C6_FirstObservation ==
    /\ NCalls >= 1 =>
          /\ calls[1].old_status = "unknown"
          /\ calls[1].new_status = "down" => calls[1].sent = <<"DOWN">>
          /\ calls[1].new_status = "up" => calls[1].sent = <<>>
    /\ (\A i \in 1 .. NCalls : calls[i].new_status = "up") =>
          /\ notifications = <<>>
          /\ last_notification = ""

\* three successful checks from start
C6_Witness ==
    /\ NCalls = 3
    /\ \A i \in 1 .. 3 : calls[i].new_status = "up"
    /\ service_status = "up"
    /\ notifications = <<>>

\* =========================================================================
\* Properties of the PID-file protocol (SpecDaemon)
\* =========================================================================

\* the invocation c takes a step
Steps(c) == cmd'[c] # cmd[c]
\* c is a `--daemon a` invocation at position pc
At(c, a, pc) == cmd[c].action = a /\ cmd[c].pc = pc
InSeq(x, s) == \E i \in 1 .. Len(s) : s[i] = x
LiveDaemons == {p \in Cmds : alive(p)}

C8_AtMostOneDaemon ==
    /\ Cardinality(LiveDaemons) <= 1
    /\ \A p \in LiveDaemons :
          (pid_file.exists /\ ~int_fails(pid_file.content))
          => int_of(pid_file.content) = p

C10_StopLeavesNothing ==
    [][\A c \in Cmds :
         ( /\ cmd[c].action = "stop" /\ cmd[c].pc # "done"
           /\ cmd'[c].pc = "done"
           /\ InSeq("pid_file", cmd'[c].found)
           /\ cmd'[c].pid # -1 )
         => /\ ~pid_file'.exists
            /\ cmd'[c].pid \notin {p \in Cmds : child'[p].state \in {"loop", "cleanup"}}]_vars

\* C11 as stated: a `stop` or `status` that saw the PID file at its
\* existence check and then found it gone (at the read or at the remove)
\* treats the daemon as not running and reports no error.
C11_VanishedFileTolerated ==
    \A c \in Cmds :
        ( /\ cmd[c].action \in {"stop", "status"}
          /\ cmd[c].pc = "done"
          /\ InSeq("vanished", cmd[c].found) )
        => /\ ~InSeq("error_stopping", cmd[c].out)
           /\ ~InSeq("invalid_pid_file", cmd[c].out)

\* C12 as stated: a `start` that reads a corrupt PID file, or whose fork
\* fails, reports the error and exits non-zero, having started no daemon
\* and written no PID.
C12_LifecycleErrorsFatal ==
    [][\A c \in Cmds :
         /\ ( /\ At(c, "start", "read") /\ Steps(c)
              /\ pid_file.exists /\ int_fails(pid_file.content) )
            => /\ cmd'[c].pc = "done"
               /\ cmd'[c].exit = 1
               /\ ~cmd'[c].forked
         /\ (At(c, "start", "fork") /\ Steps(c) /\ child'[c] = child[c])
            => /\ cmd'[c].pc = "done"
               /\ cmd'[c].exit = 1
               /\ cmd'[c].out = cmd[c].out \o <<"fork_failed">>
               /\ pid_file' = pid_file]_vars

\* a requests.post of this step failed
FailedPost ==
    /\ Len(posts') > Len(posts)
    /\ posts'[Len(posts')] # "ok"
\* the step is a probe that raised an unexpected exception
ExceptionStep == cycle_probes' = Append(cycle_probes, "exception")

\* C13: when the POST of a notification fails, handle_status_change still
\* completes and leaves service_status and the counters as a delivered
\* notification would, the POST is made once, and the loop goes on to
\* its wait (or, with check_once, ends normally).
C13_DeliveryFailureNonFatal ==
    /\ [][(mpc = "handle" /\ FailedPost)
            => /\ Len(posts') = Len(posts) + 1
               /\ HandleStep
               /\ service_status' = monitor_outcome(result)
               /\ result => /\ consecutive_failures' = 0
                            /\ consecutive_successes' = consecutive_successes + 1
                            /\ last_notification' = "recovery"
               /\ ~result => /\ consecutive_successes' = 0
                             /\ consecutive_failures' = consecutive_failures + 1
                             /\ last_notification' = "failure"
               /\ mpc' = IF check_once THEN "stopped" ELSE "wait"]_vars
    /\ [](Len(posts) <= Len(notifications))

\* both notifications failed to deliver, in both ways, and the loop is in
\* its third cycle with the status tracked as usual
C13_Witness ==
    /\ posts = <<"error", "http_error">>
    /\ notifications = <<"DOWN", "UP">>
    /\ service_status = "up"
    /\ consecutive_successes = 1
    /\ iterations = 3
    /\ mpc = "probe"

\* C14 as stated: an exception in an iteration does not end the loop, the
\* loop sleeps the interval and goes back to the loop condition, and the
\* loop is stopped only when the shutdown flag is set.
C14_OnlySignalStops ==
    /\ [][ExceptionStep => (mpc' = "sleep" /\ remaining' = CheckInterval)]_vars
    /\ [][(mpc = "sleep" /\ mpc' # "sleep") => (mpc' = "loop" /\ remaining = 0)]_vars
    /\ [](mpc = "stopped" => shutdown_event)

\* C14 amended: an exception in an iteration does not end the loop, the
\* loop sleeps the interval and goes back to the loop condition, and the
\* loop stops only when the shutdown flag is set or, in check-once mode,
\* at the end of an iteration that completed without an exception.
C14_LoopResilience ==
    /\ [][ExceptionStep => (mpc' = "sleep" /\ remaining' = CheckInterval)]_vars
    /\ [][(mpc = "sleep" /\ mpc' # "sleep") => (mpc' = "loop" /\ remaining = 0)]_vars
    /\ [][(mpc # "stopped" /\ mpc' = "stopped")
            => \/ shutdown_event /\ mpc = "loop"
               \/ check_once /\ HandleStep]_vars

\* the first iteration raised, the loop slept and is in its second iteration
C14_Witness ==
    /\ iterations = 2
    /\ NCalls = 0
    /\ mpc = "handle"
    /\ ~shutdown_event

\* C15 as stated: with check_once the loop performs exactly one iteration
\* and returns without waiting, whatever the iteration does.
C15_CheckOnce ==
    check_once =>
        /\ iterations <= 1
        /\ mpc \notin {"wait", "sleep"}
        /\ (mpc = "stopped" /\ ~shutdown_event) => (iterations = 1 /\ NCalls = 1)

\* C16: once the shutdown flag is set, monitor_loop begins no new check
\* cycle (the loop condition leads to "Monitoring stopped" without a probe),
\* the stopped loop stays stopped, and the loop does reach "Monitoring
\* stopped".
C16_GracefulShutdown ==
    /\ [][(shutdown_event /\ mpc = "loop")
             => /\ mpc' \in {"loop", "stopped"}
                /\ iterations' = iterations
                /\ cycle_probes' = cycle_probes]_vars
    /\ [][mpc = "stopped" => (mpc' = "stopped" /\ cycle_probes' = cycle_probes)]_vars
    /\ (shutdown_event ~> mpc = "stopped")

\* the signal arrived during a check cycle; the cycle completed and the
\* loop stopped without beginning another one
C16_Witness ==
    /\ shutdown_event
    /\ mpc = "stopped"
    /\ ~check_once
    /\ iterations = 2
    /\ NCalls = 2

\* C17 as stated: a wait between two check cycles returns as soon as the
\* shutdown flag is set: no time passes while the loop waits with the flag
\* set, its next step is the return to the loop condition.
C17_InterruptibleWait ==
    [][(mpc \in {"wait", "sleep"} /\ shutdown_event)
          => (mpc' = "loop" /\ remaining' = remaining)]_vars

\* C19: service_status is one of unknown, up, down; it is unknown exactly
\* until the first handle_status_change call has completed; after a call
\* with status s it equals s; its only changes are unknown -> up,
\* unknown -> down, up -> down and down -> up.
C19_StatusStateMachine ==
    /\ [](/\ service_status \in {"unknown", "up", "down"}
          /\ service_status = "unknown" <=> NCalls = 0)
    /\ [][HandleStep => /\ service_status' = monitor_outcome(result)
                        /\ service_status' = calls'[Len(calls')].new_status]_vars
    /\ [][service_status' # service_status
            => <<service_status, service_status'>> \in
                   {<<"unknown", "up">>, <<"unknown", "down">>,
                    <<"up", "down">>, <<"down", "up">>}]_vars

\* unknown -> up -> down -> up has been walked
C19_Witness ==
    /\ NCalls = 3
    /\ calls[1].old_status = "unknown" /\ calls[1].new_status = "up"
    /\ calls[2].new_status = "down"
    /\ calls[3].new_status = "up"
    /\ service_status = "up"

RECURSIVE TrailingRun(_, _)
\* length of the run of outcome st that ends the first n calls
TrailingRun(st, n) ==
    IF n = 0 \/ calls[n].new_status # st THEN 0
    ELSE 1 + TrailingRun(st, n - 1)

\* C20: consecutive_successes is the length of the trailing run of up
\* outcomes and consecutive_failures that of down outcomes; both are
\* non-negative, both are 0 only before the first check, afterwards exactly
\* one of them is 0, and consecutive_successes > 0 exactly when
\* service_status is up.
C20_ConsecutiveCounters ==
    /\ consecutive_successes = TrailingRun("up", NCalls)
    /\ consecutive_failures = TrailingRun("down", NCalls)
    /\ consecutive_successes >= 0 /\ consecutive_failures >= 0
    /\ (consecutive_successes = 0 /\ consecutive_failures = 0) <=> NCalls = 0
    /\ NCalls > 0 => (consecutive_successes = 0) # (consecutive_failures = 0)
    /\ consecutive_successes > 0 <=> service_status = "up"

\* two successes then two failures
C20_Witness ==
    /\ NCalls = 4
    /\ calls[2].new_status = "up"
    /\ calls[3].new_status = "down"
    /\ calls[4].new_status = "down"
    /\ consecutive_successes = 0
    /\ consecutive_failures = 2

\* C18: an invocation without --url whose action is not stop or status
\* ends at the validation with the error and exit code 1; it constructs no
\* ServiceMonitor, forks no daemon and runs no monitor loop.
C18_MissingUrlFatal ==
    /\ [][\A c \in Cmds :
            (cmd[c].pc = "validate" /\ ~cmd[c].url /\ Steps(c))
            => /\ cmd'[c].pc = "done"
               /\ cmd'[c].exit = 1
               /\ cmd'[c].out = cmd[c].out \o <<"url_required">>
               /\ ~cmd'[c].monitor
               /\ pid_file' = pid_file
               /\ child' = child]_vars
    /\ [](\A c \in Cmds :
            (cmd[c].action \in {"start", "restart", "run"} /\ ~cmd[c].url)
            => /\ ~cmd[c].monitor
               /\ ~cmd[c].forked
               /\ child[c].state = "none"
               /\ cmd[c].pc \in {"exists", "read", "term", "kill0", "kill9",
                                 "remove", "validate", "done"}
               /\ cmd[c].action # "restart" => cmd[c].pc \in {"validate", "done"}
               /\ cmd[c].pc = "done" => cmd[c].exit = 1)

\* a start and a restart without --url both ended with the error
C18_Witness ==
    \E c, d \in Cmds :
        /\ cmd[c].action = "start" /\ ~cmd[c].url
        /\ cmd[c].pc = "done" /\ cmd[c].exit = 1
        /\ cmd[c].out = <<"url_required">>
        /\ cmd[d].action = "restart" /\ ~cmd[d].url
        /\ cmd[d].pc = "done" /\ cmd[d].exit = 1
        /\ cmd[d].out = <<"pid_file_not_found", "url_required">>

\* C21 as stated: a `--daemon restart --url U` that has stopped the old
\* daemon and started monitoring has forked a detached daemon, which is
\* running, and the PID file names it.
C21_RestartStartsDaemon ==
    \A c \in Cmds :
        ( /\ cmd[c].action = "restart" /\ cmd[c].url
          /\ cmd[c].pc \in {"monitor_loop", "done"} )
        => /\ cmd[c].forked
           /\ alive(c)
           /\ pid_file = FileWith(str_of(c))

\* C22: the first notification is never UP (recovery), no two consecutive
\* notifications have the same kind, and last_notification names the kind
\* of the latest notification, or is empty when there was none.
C22_NotificationsAlternate ==
    /\ Len(notifications) >= 1 => notifications[1] = "DOWN"
    /\ \A i \in 1 .. Len(notifications) - 1 :
          notifications[i] # notifications[i + 1]
    /\ last_notification =
          IF notifications = <<>> THEN ""
          ELSE IF notifications[Len(notifications)] = "DOWN" THEN "failure"
          ELSE "recovery"

\* failure, recovery, failure
C22_Witness ==
    /\ notifications = <<"DOWN", "UP", "DOWN">>
    /\ last_notification = "failure"
    /\ service_status = "down"

\* C23 as stated: once the daemon child of a start has exited through its
\* cleanup and the forking parent has finished, the PID file does not name
\* that child.
C23_NoPidFileLeftBehind ==
    \A c \in Cmds :
        ( /\ cmd[c].action = "start" /\ cmd[c].forked
          /\ cmd[c].pc = "done"
          /\ child[c].state = "exited" )
        => pid_file # FileWith(str_of(c))

\* C24 as stated: check_service returns False only after at least one probe
\* was issued in the cycle and every issued probe failed.
C24_DownBackedByProbe ==
    (mpc = "handle" /\ ~result)
        => /\ Len(cycle_probes) >= 1
           /\ \A i \in 1 .. Len(cycle_probes) : cycle_probes[i] \in {"500", "error"}

\* =========================================================================
\* Properties of deploy.py (SpecDeploy)
\* =========================================================================

\* the steps main runs for a configuration, in order
DeployOrder(cfg) ==
    (IF cfg.build_image THEN <<"build_image">> ELSE <<>>)
        \o <<"deploy_application", "health_check", "get_status">>
IsPrefix(s, t) == Len(s) <= Len(t) /\ \A i \in 1 .. Len(s) : s[i] = t[i]

\* C25: the steps run are a prefix of build (only with --build), deploy,
\* health check, status; a failed step is the last step run and the exit
\* code is then 1; success is reported only after all steps ran and none
\* failed; health_check makes at most max_attempts attempts, none after a
\* successful one, and fails only after max_attempts failed attempts.
C25_DeployGating ==
    /\ IsPrefix(deployer.steps, DeployOrder(deployer.config))
    /\ deployer.failed # <<>> =>
          /\ Len(deployer.failed) = 1
          /\ deployer.pc = "exit" /\ deployer.exit = 1
          /\ ~deployer.success
          /\ deployer.failed[1] \notin {"connect", "interrupted"} =>
                 deployer.steps[Len(deployer.steps)] = deployer.failed[1]
    /\ deployer.success =>
          /\ deployer.steps = DeployOrder(deployer.config)
          /\ deployer.failed = <<>>
          /\ deployer.exit = 0
    /\ deployer.exit = 0 => deployer.success
    /\ Len(deployer.attempts) <= max_attempts
    /\ \A i \in 1 .. Len(deployer.attempts) - 1 : ~deployer.attempts[i]
    /\ deployer.failed = <<"health_check">> =>
          /\ Len(deployer.attempts) = max_attempts
          /\ \A i \in 1 .. max_attempts : ~deployer.attempts[i]
    /\ (deployer.attempts # <<>> /\ deployer.attempts[Len(deployer.attempts)])
          => deployer.pc \in {"get_status", "exit"}

\* a build-and-deploy run whose health check passed on the third attempt
C25_Witness ==
    /\ deployer.config.build_image
    /\ deployer.steps = <<"build_image", "deploy_application", "health_check",
                          "get_status">>
    /\ deployer.attempts = <<FALSE, FALSE, TRUE>>
    /\ deployer.success
    /\ deployer.exit = 0

====
